---- MODULE Spec2Model ----
\* Model of lego_timelapse (src/src/main.rs): the image-to-video pipeline of
\* main, the drain loop receive_and_write_packets and the pixel converter
\* rgb_to_yuv420p.
EXTENDS Integers, Sequences, FiniteSets, TLC

\* ---------------------------------------------------------------- bounds
MaxFiles == 2          \* directory entries
MaxPktsPerFrame == 2   \* packets the encoder makes out of one frame
MaxCells == 6          \* pixels of a raster / target in the converter runs
MaxPad == 1            \* stride padding bytes per plane row
ChanStep == 15         \* sampling step of the 8-bit channel values
FpsSpan == 10          \* fps halves taken next to 0 and next to 65535

\* ------------------------------------------------------------- variables
VARIABLES
    dir,        \* directory entries: name -> [ext, img]
    pc,         \* position of main
    paths,      \* main.rs:32-37 sorted candidate paths
    width,      \* main.rs:45 target geometry
    height,
    octx,       \* output container: "none", "open", "header", "trailer"
    enc,        \* encoder lifecycle
    encGeom,    \* geometry the encoder was configured with
    encbuf,     \* packets buffered inside the encoder
    i,          \* main.rs:61 loop index
    raster,     \* geometry of the RGB raster in hand
    frame,      \* the YUV frame in hand
    submitted,  \* frames accepted by send_frame
    emitted,    \* packets returned by receive_packet
    written,    \* packets written by write_interleaved, with the container
                \* and encoder state at the time of the write
    drainFrom,  \* call site of receive_and_write_packets
    lastAnswer, \* last answer of receive_packet
    eofCalls,   \* number of send_eof calls
    decodes,    \* number of image decodes
    converts,   \* geometries handed to rgb_to_yuv420p
    err,        \* first fatal error raised
    outcome,    \* "running", "success", "failure"
    job,        \* converter run: input of rgb_to_yuv420p
    out,        \* converter run: result of rgb_to_yuv420p
    rgb,        \* colour run: one RGB triple
    yuv,        \* colour run: its converted values
    fps,        \* main.rs:21 args.fps, a u32 as 16-bit halves [hi, lo]
    timeBase    \* main.rs:56 the encoder's time base <<num, den>>

vars == <<dir, pc, paths, width, height, octx, enc, encGeom, encbuf, i, raster,
          frame, submitted, emitted, written, drainFrom, lastAnswer, eofCalls,
          decodes, converts, err, outcome, job, out, rgb, yuv, fps, timeBase>>

pipeVars == <<dir, pc, paths, width, height, octx, enc, encGeom, encbuf, i,
              raster, frame, submitted, emitted, written, drainFrom,
              lastAnswer, eofCalls, decodes, converts, err, outcome, fps,
              timeBase>>

convVars == <<job, out, rgb, yuv>>

\* ------------------------------------------------------ pixel conversion
\* `as u8` on an f32: truncation toward zero, saturating at 0 and 255.
\* Values are carried in thousandths.
AsU8(m) == IF m < 0 THEN 0 ELSE IF m >= 256000 THEN 255 ELSE m \div 1000

YRaw(c) == 257 * c[1] + 504 * c[2] + 98 * c[3] + 16000
\* mutant: the chroma offset of 128 is left out
URawNoOffset(c) == 0 - 148 * c[1] - 291 * c[2] + 439 * c[3]
URaw(c) == 128000 - 148 * c[1] - 291 * c[2] + 439 * c[3]
VRaw(c) == 439 * c[1] - 368 * c[2] - 71 * c[3] + 128000

YVal(c) == AsU8(YRaw(c))
UVal(c) == AsU8(URaw(c))
VVal(c) == AsU8(VRaw(c))

Zeros(n) == [k \in 1..n |-> 0]

\* rows of the chroma buffers allocated by the converter
ChromaRows(h) == h \div 2

\* plane sizes of frame::Video::new(YUV420P, w, h)
CeilHalf(n) == (n + 1) \div 2

\* mutant: chroma is taken from the bottom-right pixel of each block
ChromaSampledBottomRight(y, x) == y % 2 = 1 /\ x % 2 = 1

\* chroma is sampled at even rows and even columns
ChromaSampled(y, x) == y % 2 = 0 /\ x % 2 = 0

Geom(img) == <<img.w, img.h>>

\* get_pixel panics outside the raster
GetPixelOk(img, x, y) == x < img.w /\ y < img.h

\* mutant: row and column are swapped in the offset
PlaneOffsetTransposed(r, c, stride) == c * stride + r

\* main.rs:139, 146, 147 the offset of row r, column c in a plane
PlaneOffset(r, c, stride) == r * stride + c

\* The nested loops of rgb_to_yuv420p, cell k = y * w + x in row-major order.
RECURSIVE ConvLoop(_, _, _, _, _)
ConvLoop(img, w, h, st, acc) ==
    IF acc.status # "ok" \/ acc.k = w * h THEN acc
    ELSE LET y  == acc.k \div w
             x  == acc.k % w
             yi == PlaneOffset(y, x, st.y)
             ui == PlaneOffset(y \div 2, x \div 2, st.u)
             vi == PlaneOffset(y \div 2, x \div 2, st.v)
         IN  IF ~GetPixelOk(img, x, y)
             THEN [acc EXCEPT !.status = "panic_get_pixel"]
             ELSE IF yi >= Len(acc.y)
             THEN [acc EXCEPT !.status = "panic_y_index"]
             ELSE LET c  == img.px[<<x, y>>]
                      a1 == [acc EXCEPT !.y[yi + 1] = YVal(c),
                                        !.ywrites[yi + 1] = @ + 1,
                                        !.k = @ + 1]
                  IN  IF ~ChromaSampled(y, x) THEN ConvLoop(img, w, h, st, a1)
                      ELSE IF ui >= Len(acc.u) \/ vi >= Len(acc.v)
                      THEN [a1 EXCEPT !.status = "panic_uv_index",
                                      !.k = acc.k,
                                      !.badRow = y \div 2]
                      ELSE ConvLoop(img, w, h, st,
                               [a1 EXCEPT !.u[ui + 1] = UVal(c),
                                          !.v[vi + 1] = VVal(c),
                                          !.uwrites[ui + 1] = @ + 1,
                                          !.vwrites[vi + 1] = @ + 1])

\* rgb_to_yuv420p(rgb, frame, width, height); st holds the frame's strides.
rgb_to_yuv420p(img, w, h, st) ==
    LET acc0 == [status |-> "ok", k |-> 0, badRow |-> -1,
                 y |-> Zeros(h * st.y),
                 u |-> Zeros(ChromaRows(h) * st.u),
                 v |-> Zeros(ChromaRows(h) * st.v),
                 ywrites |-> Zeros(h * st.y),
                 uwrites |-> Zeros(ChromaRows(h) * st.u),
                 vwrites |-> Zeros(ChromaRows(h) * st.v)]
    IN  ConvLoop(img, w, h, st, acc0)

\* strides frame::Video::new may give a w-wide frame: at least the plane width
Strides(w) ==
    { [y |-> w + py, u |-> CeilHalf(w) + pu, v |-> CeilHalf(w) + pv] :
        py \in 0..MaxPad, pu \in 0..MaxPad, pv \in 0..MaxPad }

Black == <<0, 0, 0>>
Red == <<255, 0, 0>>
Blue == <<0, 0, 255>>
Palette == {Red, Blue}
BlankRaster(w, h) ==
    [w |-> w, h |-> h, px |-> [p \in (0..(w - 1)) \X (0..(h - 1)) |-> Black]]

\* ------------------------------------------------------------ directory
Stems == 1..2
Exts == {"JPG", "jpg", "png", "txt"}
ExtRank == [e \in Exts |->
              CASE e = "JPG" -> 1 [] e = "jpg" -> 2 [] e = "png" -> 3 [] OTHER -> 4]
AllPaths == Stems \X Exts

Corrupt == [ok |-> FALSE, w |-> 0, h |-> 0]
Images == {Corrupt,
           [ok |-> TRUE, w |-> 2, h |-> 2],
           [ok |-> TRUE, w |-> 4, h |-> 2],
           [ok |-> TRUE, w |-> 2, h |-> 3]}

\* Ord of PathBuf, used by paths.sort()
PathLess(p, q) ==
    \/ p[1] < q[1]
    \/ p[1] = q[1] /\ ExtRank[p[2]] < ExtRank[q[2]]

\* the filter closure: ext == "jpg" || ext == "png"
ExtMatches(ext) == ext = "jpg" \/ ext = "png"

SelectPaths(s) == SelectSeq(s, LAMBDA p : ExtMatches(p[2]))

\* the orders fs::read_dir may list a directory in
Listings(d) ==
    LET n == Cardinality(DOMAIN d)
    IN  { s \in [1..n -> DOMAIN d] : \A a, b \in 1..n : a # b => s[a] # s[b] }

\* image::ImageReader::open(path)?.decode()
Decode(p) == dir[p]

\* mutant: the image is handed on in its native geometry
ResizeNone(img, w, h) == img

\* resize_exact(width, height, Lanczos3) under the guard of line 65
ResizeExact(img, w, h) ==
    IF img.w # w \/ img.h # h THEN [img EXCEPT !.w = w, !.h = h] ELSE img

\* --------------------------------------------------------------- encoder
NoFrame == [w |-> 0, h |-> 0, pts |-> -1]

\* packets the encoder makes out of the frame with timestamp pts
PacketsOf(pts, k) == [n \in 1..k |-> [pts |-> pts, n |-> n]]

\* answers of encoder.receive_packet: while frames may still come the encoder
\* may hold packets back (EAGAIN); after send_eof it hands out every buffered
\* packet and then reports end of stream; any call may fail.
Answers(state, buf) ==
    {"error"}
    \cup (IF buf # <<>> THEN {"packet"} ELSE {})
    \cup (IF state = "Active" THEN {"again"} ELSE {})
    \cup (IF state = "Flushing" /\ buf = <<>> THEN {"eof"} ELSE {})

\* ------------------------------------------------------------- pipeline
\* mutant: the error is noted and the failed call is tried again
RaiseRetry(kind) ==
    /\ err' = kind
    /\ outcome' = outcome
    /\ pc' = pc

\* the ? operator: the error is returned from main
Raise(kind) ==
    /\ err' = kind
    /\ outcome' = "failure"
    /\ pc' = "done"

\* what a file may hold: a file named .jpg or .png holds any of Images; the
\* program never opens any other file (line 35), so one content stands for
\* each: a text file is no image, a file named .JPG holds an image
Contents(p) ==
    CASE p[2] = "txt" -> {Corrupt}
      [] p[2] = "JPG" -> {[ok |-> TRUE, w |-> 2, h |-> 2]}
      [] OTHER -> Images

Dirs == UNION { { d \in [S -> Images] : \A p \in S : d[p] \in Contents(p) } :
                  S \in { T \in SUBSET AllPaths : Cardinality(T) <= MaxFiles } }
EmptyDir == [p \in {} |-> Corrupt]

NoJob == [img |-> BlankRaster(0, 0), w |-> 0, h |-> 0,
          st |-> [y |-> 0, u |-> 0, v |-> 0]]
NoOut == [status |-> "none"]
NoYuv == <<-1, -1, -1>>

\* a u32 as its two 16-bit halves
U32(hi, lo) == [hi |-> hi, lo |-> lo]

\* main.rs:20 default_value_t = 10
DefaultFps == U32(0, 10)

NoTimeBase == <<0, 0>>

\* `as i32` on a u32: the same 32 bits read as two's complement
AsI32(u) ==
    IF u.hi >= 32768 THEN (u.hi - 65536) * 65536 + u.lo
    ELSE u.hi * 65536 + u.lo

\* main.rs:56 Rational::new(1, args.fps as i32)
TimeBase(f) == <<1, AsI32(f)>>

\* main before its first statement
PipeStart ==
    /\ timeBase = NoTimeBase
    /\ pc = "read_dir"
    /\ paths = <<>>
    /\ width = 0
    /\ height = 0
    /\ octx = "none"
    /\ enc = "none"
    /\ encGeom = <<0, 0>>
    /\ encbuf = <<>>
    /\ i = 0
    /\ raster = <<0, 0>>
    /\ frame = NoFrame
    /\ submitted = <<>>
    /\ emitted = <<>>
    /\ written = <<>>
    /\ drainFrom = "none"
    /\ lastAnswer = "none"
    /\ eofCalls = 0
    /\ decodes = 0
    /\ converts = <<>>
    /\ err = "none"
    /\ outcome = "running"

Init ==
    /\ dir \in Dirs
    /\ fps = DefaultFps
    /\ PipeStart
    /\ job = NoJob
    /\ out = NoOut
    /\ rgb = Black
    /\ yuv = NoYuv

\* main.rs:32-37 read_dir, filter on the extension, collect, sort
ReadDir ==
    /\ pc = "read_dir"
    /\ \/ /\ Raise("ReadDir")
          /\ UNCHANGED paths
       \/ /\ \E listing \in Listings(dir) :
                paths' = SortSeq(SelectPaths(listing), PathLess)
          /\ pc' = "check_empty"
          /\ UNCHANGED <<err, outcome>>
    /\ UNCHANGED <<dir, width, height, octx, enc, encGeom, encbuf, i, raster,
                   frame, submitted, emitted, written, drainFrom, lastAnswer,
                   eofCalls, decodes, converts, convVars, fps, timeBase>>

\* mutant: an empty candidate list is reported as an error
CheckEmptyFails ==
    /\ pc = "check_empty"
    /\ IF paths = <<>>
       THEN /\ outcome' = "failure"
            /\ pc' = "done"
       ELSE /\ pc' = "dimensions"
            /\ UNCHANGED outcome
    /\ UNCHANGED <<dir, paths, width, height, octx, enc, encGeom, encbuf, i,
                   raster, frame, submitted, emitted, written, drainFrom,
                   lastAnswer, eofCalls, decodes, converts, err, convVars, fps, timeBase>>

\* main.rs:39-42
CheckEmpty ==
    /\ pc = "check_empty"
    /\ IF paths = <<>>
       THEN /\ outcome' = "success"
            /\ pc' = "done"
       ELSE /\ pc' = "dimensions"
            /\ UNCHANGED outcome
    /\ UNCHANGED <<dir, paths, width, height, octx, enc, encGeom, encbuf, i,
                   raster, frame, submitted, emitted, written, drainFrom,
                   lastAnswer, eofCalls, decodes, converts, err, convVars, fps, timeBase>>

\* mutant: the output container is opened before the first image is decoded
GetImageDimensionsOpensFirst ==
    /\ pc = "dimensions"
    /\ decodes' = decodes + 1
    /\ octx' = "open"
    /\ LET img == Decode(paths[1])
       IN  IF ~img.ok
           THEN /\ Raise("DecodeError")
                /\ UNCHANGED <<width, height>>
           ELSE /\ width' = img.w
                /\ height' = img.h
                /\ pc' = "create_encoder"
                /\ UNCHANGED <<err, outcome>>
    /\ UNCHANGED <<dir, paths, enc, encGeom, encbuf, i, raster, frame,
                   submitted, emitted, written, drainFrom, lastAnswer,
                   eofCalls, converts, convVars, fps, timeBase>>

\* main.rs:45 and 90-93 get_image_dimensions(&paths[0])?
GetImageDimensions ==
    /\ pc = "dimensions"
    /\ decodes' = decodes + 1
    /\ LET img == Decode(paths[1])
       IN  IF ~img.ok
           THEN /\ Raise("DecodeError")
                /\ UNCHANGED <<width, height>>
           ELSE /\ width' = img.w
                /\ height' = img.h
                /\ pc' = "open_output"
                /\ UNCHANGED <<err, outcome>>
    /\ UNCHANGED <<dir, paths, octx, enc, encGeom, encbuf, i, raster, frame,
                   submitted, emitted, written, drainFrom, lastAnswer,
                   eofCalls, converts, convVars, fps, timeBase>>

\* main.rs:48 format::output(&args.salida)?
OpenOutput ==
    /\ pc = "open_output"
    /\ \/ /\ Raise("OutputError")
          /\ UNCHANGED octx
       \/ /\ octx' = "open"
          /\ pc' = "create_encoder"
          /\ UNCHANGED <<err, outcome>>
    /\ UNCHANGED <<dir, paths, width, height, enc, encGeom, encbuf, i, raster,
                   frame, submitted, emitted, written, drainFrom, lastAnswer,
                   eofCalls, decodes, converts, convVars, fps, timeBase>>

\* main.rs:50-56 add_stream, encoder().video(), set_width .. set_time_base
CreateEncoder ==
    /\ pc = "create_encoder"
    /\ \/ /\ Raise("EncoderError")
          /\ UNCHANGED <<enc, encGeom, timeBase>>
       \/ /\ enc' = "Configured"
          /\ encGeom' = <<width, height>>
          /\ timeBase' = TimeBase(fps)
          /\ pc' = "open_encoder"
          /\ UNCHANGED <<err, outcome>>
    /\ UNCHANGED <<dir, paths, width, height, octx, encbuf, i, raster, frame,
                   submitted, emitted, written, drainFrom, lastAnswer,
                   eofCalls, decodes, converts, convVars, fps>>

\* main.rs:57 encoder.open_as(codec_id)?
OpenEncoder ==
    /\ pc = "open_encoder"
    /\ \/ /\ Raise("EncoderError")
          /\ UNCHANGED enc
       \/ /\ enc' = "Active"
          /\ pc' = "write_header"
          /\ UNCHANGED <<err, outcome>>
    /\ UNCHANGED <<dir, paths, width, height, octx, encGeom, encbuf, i, raster,
                   frame, submitted, emitted, written, drainFrom, lastAnswer,
                   eofCalls, decodes, converts, convVars, fps, timeBase>>

\* main.rs:58 octx.write_header()?
WriteHeader ==
    /\ pc = "write_header"
    /\ \/ /\ Raise("OutputError")
          /\ UNCHANGED octx
       \/ /\ octx' = "header"
          /\ pc' = "decode"
          /\ UNCHANGED <<err, outcome>>
    /\ UNCHANGED <<dir, paths, width, height, enc, encGeom, encbuf, i, raster,
                   frame, submitted, emitted, written, drainFrom, lastAnswer,
                   eofCalls, decodes, converts, convVars, fps, timeBase>>

\* main.rs:63-70 decode, resize when the geometry differs, to_rgb8
LoadImage ==
    /\ pc = "decode"
    /\ decodes' = decodes + 1
    /\ LET img == Decode(paths[i + 1])
       IN  IF ~img.ok
           THEN /\ Raise("DecodeError")
                /\ UNCHANGED raster
           ELSE /\ raster' = LET r == ResizeExact(img, width, height)
                             IN  <<r.w, r.h>>
                /\ pc' = "convert"
                /\ UNCHANGED <<err, outcome>>
    /\ UNCHANGED <<dir, paths, width, height, octx, enc, encGeom, encbuf, i,
                   frame, submitted, emitted, written, drainFrom, lastAnswer,
                   eofCalls, converts, convVars, fps, timeBase>>

\* main.rs:72-73 frame::Video::new and rgb_to_yuv420p(&img, &mut f, width, height)
Convert ==
    /\ pc = "convert"
    /\ converts' = Append(converts, raster)
    /\ \E st \in Strides(width) :
          IF rgb_to_yuv420p(BlankRaster(raster[1], raster[2]),
                            width, height, st).status # "ok"
          THEN /\ Raise("Panic")
               /\ UNCHANGED frame
          ELSE /\ frame' = [w |-> width, h |-> height, pts |-> -1]
               /\ pc' = "send_frame"
               /\ UNCHANGED <<err, outcome>>
    /\ UNCHANGED <<dir, paths, width, height, octx, enc, encGeom, encbuf, i,
                   raster, submitted, emitted, written, drainFrom, lastAnswer,
                   eofCalls, decodes, convVars, fps, timeBase>>

\* mutant: timestamps counted from one
PtsOneBased(idx) == idx + 1

\* main.rs:75 the timestamp given to the frame of loop index idx
Pts(idx) == idx

\* mutant: the packets are only drained after the last frame
SendFrameNoDrain ==
    /\ pc = "send_frame"
    /\ frame' = [frame EXCEPT !.pts = Pts(i)]
    /\ \/ /\ Raise("EncoderError")
          /\ UNCHANGED <<submitted, encbuf, drainFrom, i>>
       \/ /\ submitted' = Append(submitted,
                 [pts |-> Pts(i), path |-> paths[i + 1], w |-> frame.w,
                  h |-> frame.h, state |-> enc])
          /\ \E k \in 0..MaxPktsPerFrame : encbuf' = encbuf \o PacketsOf(Pts(i), k)
          /\ drainFrom' = "loop"
          /\ i' = i + 1
          /\ pc' = IF i + 1 < Len(paths) THEN "decode" ELSE "send_eof"
          /\ UNCHANGED <<err, outcome>>
    /\ UNCHANGED <<dir, paths, width, height, octx, enc, encGeom, raster,
                   emitted, written, lastAnswer, eofCalls, decodes, converts,
                   convVars, fps, timeBase>>

\* main.rs:75-78 f.set_pts(Some(i as i64)); encoder.send_frame(&f)?; the drain follows
SendFrame ==
    /\ pc = "send_frame"
    /\ frame' = [frame EXCEPT !.pts = Pts(i)]
    /\ \/ /\ Raise("EncoderError")
          /\ UNCHANGED <<submitted, encbuf, drainFrom>>
       \/ /\ submitted' = Append(submitted,
                 [pts |-> Pts(i), path |-> paths[i + 1], w |-> frame.w,
                  h |-> frame.h, state |-> enc])
          /\ \E k \in 0..MaxPktsPerFrame : encbuf' = encbuf \o PacketsOf(Pts(i), k)
          /\ drainFrom' = "loop"
          /\ pc' = "drain"
          /\ UNCHANGED <<err, outcome>>
    /\ UNCHANGED <<dir, paths, width, height, octx, enc, encGeom, i, raster,
                   emitted, written, lastAnswer, eofCalls, decodes, converts,
                   convVars, fps, timeBase>>

\* mutant: the encoder is flushed after every frame
AfterDrainFlushEachFrame(from, idx) ==
    IF from = "loop" THEN "send_eof"
    ELSE IF idx < Len(paths) THEN "decode" ELSE "write_trailer"

\* where main goes on after receive_and_write_packets returned Ok
AfterDrain(from, idx) ==
    IF from = "loop"
    THEN IF idx + 1 < Len(paths) THEN "decode" ELSE "send_eof"
    ELSE "write_trailer"

\* mutant: a received packet ends the loop without being written
MatchArmDropPacket(ans) ==
    CASE ans = "packet" -> "break"
      [] ans = "again" -> "break"
      [] ans = "eof" -> "break"
      [] OTHER -> "return_err"

\* mutant: "no packet ready" falls through to the error arm
MatchArmAgainIsError(ans) ==
    CASE ans = "packet" -> "write"
      [] ans = "eof" -> "break"
      [] OTHER -> "return_err"

\* main.rs:101-111 the arms of the match on receive_packet's answer
MatchArm(ans) ==
    CASE ans = "packet" -> "write"
      [] ans = "again" -> "break"
      [] ans = "eof" -> "break"
      [] OTHER -> "return_err"

\* mutant: an `if` in place of the loop, one packet is written per drain
ReceiveOnceWith(answers) ==
    /\ pc = "drain"
    /\ \E ans \in answers :
          /\ lastAnswer' = ans
          /\ emitted' = IF ans = "packet" THEN Append(emitted, Head(encbuf))
                        ELSE emitted
          /\ encbuf' = IF ans = "packet" THEN Tail(encbuf) ELSE encbuf
          /\ enc' = IF ans = "eof" /\ enc = "Flushing" THEN "Closed" ELSE enc
          /\ CASE MatchArm(ans) = "write" ->
                    \/ /\ written' = Append(written,
                               [pkt |-> Head(encbuf), octx |-> octx,
                                phase |-> enc])
                       /\ pc' = AfterDrain(drainFrom, i)
                       /\ i' = IF drainFrom = "loop" THEN i + 1 ELSE i
                       /\ UNCHANGED <<err, outcome>>
                    \/ /\ Raise("PacketWriteError")
                       /\ UNCHANGED <<written, i>>
               [] MatchArm(ans) = "break" ->
                    /\ pc' = AfterDrain(drainFrom, i)
                    /\ i' = IF drainFrom = "loop" THEN i + 1 ELSE i
                    /\ UNCHANGED <<written, err, outcome>>
               [] OTHER ->
                    /\ Raise("EncoderError")
                    /\ UNCHANGED <<written, i>>
    /\ UNCHANGED <<dir, paths, width, height, octx, encGeom, raster, frame,
                   submitted, drainFrom, eofCalls, decodes, converts, convVars, fps, timeBase>>

\* main.rs:100-112 one turn of the loop of receive_and_write_packets, the
\* encoder answering with one of answers
ReceiveWith(answers) ==
    /\ pc = "drain"
    /\ \E ans \in answers :
          /\ lastAnswer' = ans
          /\ emitted' = IF ans = "packet" THEN Append(emitted, Head(encbuf))
                        ELSE emitted
          /\ encbuf' = IF ans = "packet" THEN Tail(encbuf) ELSE encbuf
          /\ enc' = IF ans = "eof" /\ enc = "Flushing" THEN "Closed" ELSE enc
          /\ CASE MatchArm(ans) = "write" ->
                    /\ \/ /\ written' = Append(written,
                                 [pkt |-> Head(encbuf), octx |-> octx,
                                  phase |-> enc])
                          /\ UNCHANGED <<pc, err, outcome>>
                       \/ /\ Raise("PacketWriteError")
                          /\ UNCHANGED written
                    /\ UNCHANGED i
               [] MatchArm(ans) = "break" ->
                    /\ pc' = AfterDrain(drainFrom, i)
                    /\ i' = IF drainFrom = "loop" THEN i + 1 ELSE i
                    /\ UNCHANGED <<written, err, outcome>>
               [] OTHER ->
                    /\ Raise("EncoderError")
                    /\ UNCHANGED <<written, i>>
    /\ UNCHANGED <<dir, paths, width, height, octx, encGeom, raster, frame,
                   submitted, drainFrom, eofCalls, decodes, converts, convVars, fps, timeBase>>

\* main.rs:95-114 receive_and_write_packets against an encoder that keeps to
\* the send/receive protocol
ReceivePacket == ReceiveWith(Answers(enc, encbuf))

\* answers of an encoder that is not held to the protocol: any answer at any
\* time
AnyAnswers(state, buf) ==
    {"error", "again", "eof"} \cup (IF buf # <<>> THEN {"packet"} ELSE {})

\* main.rs:95-114 receive_and_write_packets against any encoder
ReceivePacketAny == ReceiveWith(AnyAnswers(enc, encbuf))

\* mutant: the drain after send_eof is left out
SendEofNoDrain ==
    /\ pc = "send_eof"
    /\ eofCalls' = eofCalls + 1
    /\ \/ /\ Raise("EncoderError")
          /\ UNCHANGED <<enc, drainFrom>>
       \/ /\ enc' = "Flushing"
          /\ drainFrom' = "eof"
          /\ pc' = "write_trailer"
          /\ UNCHANGED <<err, outcome>>
    /\ UNCHANGED <<dir, paths, width, height, octx, encGeom, encbuf, i, raster,
                   frame, submitted, emitted, written, lastAnswer, decodes,
                   converts, convVars, fps, timeBase>>

\* main.rs:82-83 encoder.send_eof()?; the drain follows
SendEof ==
    /\ pc = "send_eof"
    /\ eofCalls' = eofCalls + 1
    /\ \/ /\ Raise("EncoderError")
          /\ UNCHANGED <<enc, drainFrom>>
       \/ /\ enc' = "Flushing"
          /\ drainFrom' = "eof"
          /\ pc' = "drain"
          /\ UNCHANGED <<err, outcome>>
    /\ UNCHANGED <<dir, paths, width, height, octx, encGeom, encbuf, i, raster,
                   frame, submitted, emitted, written, lastAnswer, decodes,
                   converts, convVars, fps, timeBase>>

\* main.rs:85-87 octx.write_trailer()?; Ok(())
WriteTrailer ==
    /\ pc = "write_trailer"
    /\ \/ /\ Raise("OutputError")
          /\ UNCHANGED octx
       \/ /\ octx' = "trailer"
          /\ outcome' = "success"
          /\ pc' = "done"
          /\ UNCHANGED err
    /\ UNCHANGED <<dir, paths, width, height, enc, encGeom, encbuf, i, raster,
                   frame, submitted, emitted, written, drainFrom, lastAnswer,
                   eofCalls, decodes, converts, convVars, fps, timeBase>>

Next ==
    \/ ReadDir
    \/ CheckEmpty
    \/ GetImageDimensions
    \/ OpenOutput
    \/ CreateEncoder
    \/ OpenEncoder
    \/ WriteHeader
    \/ LoadImage
    \/ Convert
    \/ SendFrame
    \/ ReceivePacket
    \/ SendEof
    \/ WriteTrailer

Spec == Init /\ [][Next]_vars

\* main against an encoder that may give any answer at any time
AnyNext ==
    \/ ReadDir
    \/ CheckEmpty
    \/ GetImageDimensions
    \/ OpenOutput
    \/ CreateEncoder
    \/ OpenEncoder
    \/ WriteHeader
    \/ LoadImage
    \/ Convert
    \/ SendFrame
    \/ ReceivePacketAny
    \/ SendEof
    \/ WriteTrailer

AnySpec == Init /\ [][AnyNext]_vars

\* main is sequential: a drain loop that can take a turn takes it
LiveSpec == Init /\ [][Next]_vars /\ WF_vars(ReceivePacket)

\* ------------------------------------------- the converter on its own
Geoms == { g \in (1..MaxCells) \X (1..MaxCells) : g[1] * g[2] <= MaxCells }

Cells(g) == (0..(g[1] - 1)) \X (0..(g[2] - 1))

\* every raster of geometry g in two colours
RastersOf(g) ==
    { [w |-> g[1], h |-> g[2], px |-> f] : f \in [Cells(g) -> Palette] }

\* the raster of geometry g in one colour
PlainRaster(g) == [w |-> g[1], h |-> g[2], px |-> [p \in Cells(g) |-> Red]]

\* the calls for target geometry g: every raster of that geometry, and a plain
\* raster of every other geometry
JobsFor(g) ==
    { [img |-> r, w |-> g[1], h |-> g[2], st |-> st] :
        r \in RastersOf(g) \cup { PlainRaster(q) : q \in Geoms \ {g} },
        st \in Strides(g[1]) }

\* a call of rgb_to_yuv420p with any raster, target geometry and strides
ConvInit ==
    /\ dir = EmptyDir
    /\ fps = DefaultFps
    /\ PipeStart
    /\ \E g \in Geoms : job \in JobsFor(g)
    /\ out = NoOut
    /\ rgb = Black
    /\ yuv = NoYuv

ConvRun ==
    /\ out = NoOut
    /\ out' = rgb_to_yuv420p(job.img, job.w, job.h, job.st)
    /\ UNCHANGED <<pipeVars, job, rgb, yuv>>

ConvNext == ConvRun

ConvSpec == ConvInit /\ [][ConvNext]_vars

\* ------------------------------------------- the time base on its own
FpsHalves == (0..FpsSpan) \cup ((65535 - FpsSpan)..65535)
FpsValues == { U32(hi, lo) : hi \in {0, 1, 32767, 32768, 65535}, lo \in FpsHalves }

\* any --fps value the argument parser accepts for a u32
FpsInit ==
    /\ dir = EmptyDir
    /\ fps \in FpsValues
    /\ PipeStart
    /\ job = NoJob
    /\ out = NoOut
    /\ rgb = Black
    /\ yuv = NoYuv

\* main.rs:56 encoder.set_time_base(Rational::new(1, args.fps as i32))
SetTimeBase ==
    /\ timeBase = NoTimeBase
    /\ timeBase' = TimeBase(fps)
    /\ UNCHANGED <<dir, pc, paths, width, height, octx, enc, encGeom, encbuf,
                   i, raster, frame, submitted, emitted, written, drainFrom,
                   lastAnswer, eofCalls, decodes, converts, err, outcome,
                   convVars, fps>>

FpsNext == SetTimeBase

FpsSpec == FpsInit /\ [][FpsNext]_vars

\* ------------------------------------------ the colour formulas on their own
Channel == { c \in 0..255 : c % ChanStep = 0 \/ c = 255 }

ColourInit ==
    /\ dir = EmptyDir
    /\ fps = DefaultFps
    /\ PipeStart
    /\ job = NoJob
    /\ out = NoOut
    /\ rgb \in Channel \X Channel \X Channel
    /\ yuv = NoYuv

\* main.rs:133-144 the three casts of one pixel
ConvertColour ==
    /\ yuv = NoYuv
    /\ yuv' = <<YVal(rgb), UVal(rgb), VVal(rgb)>>
    /\ UNCHANGED <<pipeVars, job, out, rgb>>

ColourNext == ConvertColour

ColourSpec == ColourInit /\ [][ColourNext]_vars

\* ================================================================ claims
Pkts(w) == [k \in 1..Len(w) |-> w[k].pkt]
NoDup(s) == \A a, b \in 1..Len(s) : a # b => s[a] # s[b]
EncRank(s) ==
    CASE s = "none" -> 0
      [] s = "Configured" -> 1
      [] s = "Active" -> 2
      [] s = "Flushing" -> 3
      [] OTHER -> 4

\* C1 as stated: in every run every packet the encoder emitted has been
\* written exactly once, the written packets are the emitted packets in the
\* same order, and every write fell between write_header and write_trailer.
C1_AsClaimed ==
    /\ Pkts(written) = emitted
    /\ NoDup(Pkts(written))
    /\ \A k \in 1..Len(written) : written[k].octx = "header"

\* C1 amended: the written packets are the emitted packets in the same order,
\* each once, all of them unless write_interleaved failed, when exactly the
\* packet just received is missing; every write fell between write_header and
\* write_trailer.
C1_PacketsWrittenInOrder ==
    /\ IF err = "PacketWriteError"
       THEN /\ emitted # <<>>
            /\ Pkts(written) = SubSeq(emitted, 1, Len(emitted) - 1)
       ELSE Pkts(written) = emitted
    /\ NoDup(Pkts(written))
    /\ \A k \in 1..Len(written) : written[k].octx = "header"

\* a successful run that wrote packets both before and after the flush
C1_Witness ==
    /\ outcome = "success"
    /\ \E a, b \in 1..Len(written) :
          written[a].phase = "Active" /\ written[b].phase = "Flushing"

\* C2: a successful run over N >= 1 images submitted exactly N frames, the
\* k-th from the k-th path in sorted order with timestamp k (from 0).
C2_FramesAndTimestamps ==
    (outcome = "success" /\ Len(paths) >= 1) =>
        /\ Len(submitted) = Len(paths)
        /\ \A k \in 1..Len(submitted) :
              submitted[k].pts = k - 1 /\ submitted[k].path = paths[k]
        /\ \A a, b \in 1..Len(paths) : a < b => PathLess(paths[a], paths[b])

C2_Witness == outcome = "success" /\ Len(submitted) >= 2

\* C3: with no candidate image the run ends in success and nothing was done
\* for the output: no container, no encoder, no header, packet or trailer.
C3_EmptyInputIsNoOp ==
    (paths = <<>> /\ err = "none" /\ pc \notin {"read_dir", "check_empty"}) =>
        /\ pc = "done"
        /\ outcome = "success"
        /\ octx = "none"
        /\ enc = "none"
        /\ written = <<>>
        /\ submitted = <<>>
        /\ decodes = 0

\* a directory holding only files that are no candidates
C3_Witness ==
    /\ pc = "done"
    /\ paths = <<>>
    /\ err = "none"
    /\ dir # EmptyDir

\* C4: the encoder only moves forward through its lifecycle, frames are
\* submitted only while it is Active, send_eof is called at most once and only
\* after the last frame was submitted and drained, and no frame follows it.
C4_EncoderLifecycle ==
    /\ [](/\ \A k \in 1..Len(submitted) : submitted[k].state = "Active"
          /\ eofCalls <= 1
          /\ eofCalls >= 1 => (Len(submitted) = Len(paths) /\ i = Len(paths)))
    /\ [][/\ EncRank(enc') \in {EncRank(enc), EncRank(enc) + 1}
          /\ eofCalls >= 1 => submitted' = submitted]_vars

C4_Witness == enc = "Closed" /\ Len(submitted) >= 2

\* C5: the drain after the flush terminates; when write_trailer is reached
\* the drain ended on end of stream, the encoder holds no packet and every
\* packet it emitted has been written.
C5_FlushDrainsEverything ==
    /\ []((pc = "write_trailer" \/ octx = "trailer") =>
            /\ lastAnswer = "eof"
            /\ enc = "Closed"
            /\ encbuf = <<>>
            /\ Pkts(written) = emitted)
    /\ ((pc = "drain" /\ drainFrom = "eof") ~> (pc # "drain"))

\* the trailer was written after packets held back until the flush
C5_Witness ==
    /\ octx = "trailer"
    /\ \E k \in 1..Len(written) : written[k].phase = "Flushing"

\* C6: a fatal error ends the run in failure at once: nothing is decoded,
\* submitted or written after it, no trailer is written, success is not
\* reported.
C6_FailFast ==
    /\ [](err # "none" =>
            (outcome = "failure" /\ pc = "done" /\ octx # "trailer"))
    /\ [][err # "none" =>
            UNCHANGED <<decodes, converts, submitted, written, octx, outcome>>]_vars

\* a failure in the middle of a run, after packets were written
C6_Witness ==
    /\ err \in {"DecodeError", "EncoderError", "PacketWriteError"}
    /\ written # <<>>

\* C7 as stated: for every width and height the conversion of a raster of
\* the target geometry completes, its chroma writes staying below row
\* height/2.
C7_AsClaimed ==
    (out.status # "none" /\ Geom(job.img) = <<job.w, job.h>>) =>
        out.status = "ok"

\* C8 as stated: a raster whose geometry differs from the target is rejected
\* with DimensionMismatch.
C8_AsClaimed ==
    (out.status # "none" /\ Geom(job.img) # <<job.w, job.h>>) =>
        out.status = "DimensionMismatch"

\* C9: the target geometry is that of the first image throughout, every
\* raster handed to the converter has it, and every submitted frame has the
\* geometry the encoder was configured with.
C9_UniformGeometry ==
    /\ width # 0 => <<width, height>> = Geom(Decode(paths[1]))
    /\ \A k \in 1..Len(converts) : converts[k] = <<width, height>>
    /\ \A k \in 1..Len(submitted) :
          <<submitted[k].w, submitted[k].h>> = encGeom
    /\ enc # "none" => encGeom = <<width, height>>

\* an image of another geometry was converted and submitted
C9_Witness ==
    \E k \in 1..Len(submitted) :
        /\ Geom(Decode(paths[k])) # <<width, height>>
        /\ converts[k] = <<width, height>>

\* C10: for the RGB triple converted, the three formula values lie in
\* [0, 255] before the cast and the stored bytes are their truncations.
C10_NoWrapNoSaturation ==
    yuv # NoYuv =>
        /\ YRaw(rgb) >= 0 /\ YRaw(rgb) < 256000
        /\ URaw(rgb) >= 0 /\ URaw(rgb) < 256000
        /\ VRaw(rgb) >= 0 /\ VRaw(rgb) < 256000
        /\ yuv = <<YRaw(rgb) \div 1000, URaw(rgb) \div 1000, VRaw(rgb) \div 1000>>

\* the triple with the largest U value
C10_Witness == yuv # NoYuv /\ rgb = <<0, 0, 255>>

\* C11: a drain only starts after a frame or the end of input was sent, every
\* accepted frame is followed at once by a drain that returns before the next
\* image is decoded or the next frame is sent, and no packet is received
\* before the first submission.
C11_DrainFollowsSubmission ==
    /\ [](/\ pc = "drain" => (submitted # <<>> \/ eofCalls >= 1)
          /\ emitted # <<>> => submitted # <<>>
          /\ pc \in {"decode", "convert", "send_frame"} => i = Len(submitted))
    /\ [][Len(submitted') > Len(submitted) => pc' = "drain"]_vars

\* the second image is about to be decoded, after the first drain returned
C11_Witness == pc = "decode" /\ Len(submitted) >= 1 /\ lastAnswer = "again"

\* the extension in lower case
LowerExt(ext) == IF ext = "JPG" THEN "jpg" ELSE ext

\* C12 as stated: the candidates are exactly the directory entries whose
\* extension matches the allow-list without regard to case, and they are
\* processed in lexicographic path order.
C12_AsClaimed ==
    (pc # "read_dir" /\ err # "ReadDir") =>
        /\ { paths[k] : k \in 1..Len(paths) } =
              { p \in DOMAIN dir : LowerExt(p[2]) \in {"jpg", "png"} }
        /\ \A a, b \in 1..Len(paths) : a < b => PathLess(paths[a], paths[b])

\* C13 as stated: an end-of-stream answer before send_eof was called makes
\* the run fail.
C13_AsClaimed ==
    (lastAnswer = "eof" /\ eofCalls = 0) => (err # "none" /\ outcome = "failure")

\* C14: receive_and_write_packets returns Ok exactly when its loop stopped on
\* "no packet ready" or on end of stream, and an error exactly when the
\* encoder reported another error or a packet write failed; "no packet ready"
\* ends the drain at once and never reaches the caller as an error.
C14_DrainResult ==
    /\ [][(pc = "drain" /\ pc' # "drain") =>
            /\ (err' = "none") <=> (lastAnswer' \in {"again", "eof"})
            /\ (err' = "EncoderError") <=> (lastAnswer' = "error")
            /\ (err' = "PacketWriteError") <=> (lastAnswer' = "packet")
            /\ err' \in {"none", "EncoderError", "PacketWriteError"}]_vars
    /\ [][(pc = "drain" /\ lastAnswer' = "again") =>
            (pc' # "drain" /\ err' = "none")]_vars

\* a drain that wrote packets and returned Ok on "no packet ready"
C14_Witness ==
    /\ pc = "send_eof"
    /\ lastAnswer = "again"
    /\ written # <<>>
    /\ err = "none"

\* C15: a drain that returns Ok ended on "no packet ready" or end of stream,
\* after the flush with nothing left in the encoder; every packet received
\* was written before the next one was asked for, and the pipeline holds no
\* unwritten packet between two drains.
C15_DrainIsComplete ==
    /\ [](err = "none" => Pkts(written) = emitted)
    /\ [][(pc = "drain" /\ pc' # "drain" /\ err' = "none") =>
            /\ lastAnswer' \in {"again", "eof"}
            /\ emitted' = emitted
            /\ drainFrom = "eof" => encbuf' = <<>>]_vars

\* a drain took two packets or more and returned Ok
C15_Witness ==
    /\ pc \in {"decode", "send_eof"}
    /\ i = 1
    /\ Len(written) >= 2
    /\ err = "none"

\* C16: the target geometry is taken from the first image before any output
\* work; when the first image cannot be decoded the run fails with no
\* container opened, no encoder created and no header written.
C16_GeometryBeforeOutput ==
    /\ (octx # "none" \/ enc # "none") =>
          (width # 0 /\ <<width, height>> = Geom(Decode(paths[1])))
    /\ (err = "DecodeError" /\ decodes = 1) =>
          (pc = "done" /\ outcome = "failure" /\ octx = "none" /\ enc = "none")

\* the first image is corrupt
C16_Witness ==
    /\ err = "DecodeError"
    /\ decodes = 1
    /\ ~Decode(paths[1]).ok

\* plane p of a result holds value val, written once, at row r, column c
StoredOnce(plane, writes, stride, r, c, val) ==
    /\ plane[r * stride + c + 1] = val
    /\ writes[r * stride + c + 1] = 1

\* the bytes of the columns from lw up to the stride are zero and unwritten
PaddingZero(plane, writes, stride, rows, lw) ==
    /\ Len(plane) = rows * stride
    /\ \A r \in 0..(rows - 1) : \A c \in lw..(stride - 1) :
          plane[r * stride + c + 1] = 0 /\ writes[r * stride + c + 1] = 0

\* C17: after a conversion, in each plane the sample of row r, column c sits
\* at offset r * stride + c, every such offset was written exactly once, and
\* the padding bytes of every row are zero.
C17_PlaneLayout ==
    out.status = "ok" =>
        LET px == job.img.px
            cw == CeilHalf(job.w)
            ch == ChromaRows(job.h)
        IN  /\ \A r \in 0..(job.h - 1) : \A c \in 0..(job.w - 1) :
                  StoredOnce(out.y, out.ywrites, job.st.y, r, c, YVal(px[<<c, r>>]))
            /\ \A r \in 0..(ch - 1) : \A c \in 0..(cw - 1) :
                  /\ StoredOnce(out.u, out.uwrites, job.st.u, r, c,
                                UVal(px[<<2 * c, 2 * r>>]))
                  /\ StoredOnce(out.v, out.vwrites, job.st.v, r, c,
                                VVal(px[<<2 * c, 2 * r>>]))
            /\ PaddingZero(out.y, out.ywrites, job.st.y, job.h, job.w)
            /\ PaddingZero(out.u, out.uwrites, job.st.u, ch, cw)
            /\ PaddingZero(out.v, out.vwrites, job.st.v, ch, cw)

\* a 2x2 raster of two colours converted into planes that all have padding
C17_Witness ==
    /\ out.status = "ok"
    /\ Geom(job.img) = <<2, 2>>
    /\ job.w = 2 /\ job.h = 2
    /\ job.st.y > 2 /\ job.st.u > 1 /\ job.st.v > 1
    /\ job.img.px[<<0, 0>>] # job.img.px[<<1, 0>>]

\* the pixels that are not the top-left pixel of their 2x2 block
OtherPixels(img) == { p \in DOMAIN img.px : p[1] % 2 = 1 \/ p[2] % 2 = 1 }

\* the rasters that differ from img at most in those pixels
SameBlockOrigins(img) ==
    { [img EXCEPT !.px = [p \in DOMAIN img.px |->
                            IF p \in OtherPixels(img) THEN f[p] ELSE img.px[p]]] :
        f \in [OtherPixels(img) -> Palette] }

\* C18: the U and V bytes of chroma position (r, c) are those of the pixel at
\* (2r, 2c) alone: a raster that differs only in the other pixels of the
\* blocks gives the same U and V planes; each Y byte is that of its own pixel.
C18_PointSampledChroma ==
    out.status = "ok" =>
        /\ \A r \in 0..(ChromaRows(job.h) - 1) : \A c \in 0..(CeilHalf(job.w) - 1) :
              /\ out.u[r * job.st.u + c + 1] = UVal(job.img.px[<<2 * c, 2 * r>>])
              /\ out.v[r * job.st.v + c + 1] = VVal(job.img.px[<<2 * c, 2 * r>>])
        /\ \A r \in 0..(job.h - 1) : \A c \in 0..(job.w - 1) :
              out.y[r * job.st.y + c + 1] = YVal(job.img.px[<<c, r>>])
        /\ \A other \in SameBlockOrigins(job.img) :
              LET o2 == rgb_to_yuv420p(other, job.w, job.h, job.st)
              IN  o2.status = "ok" /\ o2.u = out.u /\ o2.v = out.v

\* a 2x2 block whose other three pixels all differ from its top-left pixel
C18_Witness ==
    /\ out.status = "ok"
    /\ Geom(job.img) = <<2, 2>>
    /\ job.w = 2 /\ job.h = 2
    /\ job.img.px[<<0, 0>>] = Red
    /\ job.img.px[<<1, 0>>] = Blue
    /\ job.img.px[<<0, 1>>] = Blue
    /\ job.img.px[<<1, 1>>] = Blue

\* C19 as stated: for every fps the command line accepts the time base is
\* 1/fps, its denominator positive and equal to fps.
C19_AsClaimed ==
    timeBase # NoTimeBase =>
        /\ timeBase[1] = 1
        /\ timeBase[2] > 0
        /\ timeBase[2] \div 65536 = fps.hi
        /\ timeBase[2] % 65536 = fps.lo

====
